---- MODULE Spec2Model ----
(***************************************************************************)
(* Base58Encoding (src/lib/index.mjs): the constructor that validates and  *)
(* indexes an alphabet, the eight byte/string conversion routines and the  *)
(* four integer routines, as operators over sequences of code units.       *)
(*                                                                         *)
(* A string is the sequence of its UTF-16 code units, a Uint8Array the     *)
(* sequence of its elements; index i of the source is index i + 1 here.    *)
(* A one-character string is represented by its code unit.                 *)
(***************************************************************************)
EXTENDS Integers, Sequences, FiniteSets, TLC

VARIABLES target, ctor, call, prev

vars == <<target, ctor, call, prev>>

(***************************************************************************)
(* Bounds of the model.                                                    *)
(***************************************************************************)
\* longest string / byte buffer handed to a conversion routine by a caller
MaxLen == 3
\* the integers 0..MaxInt are handed to encodeInt / encodeBigInt
MaxInt == 120

(***************************************************************************)
(* JavaScript values that are not numbers of the model's ranges.           *)
(***************************************************************************)
\* the value `undefined` (a missing Map key, an out-of-range element)
Undefined == -1
\* the number NaN
NaN == -2

\* the text appended by `result += undefined`
UndefinedText == <<117, 110, 100, 101, 102, 105, 110, 101, 100>>

\* string[i]: the character at index i, undefined outside the string
StringAt(string, i) ==
  IF i >= 0 /\ i < Len(string) THEN string[i + 1] ELSE Undefined

\* StringCharCodeAt(string, i): NaN outside the string
StringCharCodeAt(string, i) ==
  IF i >= 0 /\ i < Len(string) THEN string[i + 1] ELSE NaN

\* StringFromCharCode(charCode): ToUint16, so undefined gives the NUL character
StringFromCharCode(code) ==
  IF code = Undefined \/ code = NaN THEN 0 ELSE code % 65536

\* result += value, for a one-character string or undefined
StringConcat(result, value) ==
  IF value = Undefined THEN result \o UndefinedText ELSE Append(result, value)

\* MapGet(map, key): undefined when the key is absent
MapGet(map, key) == IF key \in DOMAIN map THEN map[key] ELSE Undefined

MapHas(map, key) == key \in DOMAIN map

\* MapSet(map, key, value): the map with key bound to value
MapSet(map, key, value) == (key :> value) @@ map

\* new Map()
EmptyMap == <<>>

\* typedArray[index]: undefined outside 0..length-1
TypedArrayGet(array, index) ==
  IF index >= 0 /\ index < Len(array) THEN array[index + 1] ELSE Undefined

\* the conversion of a value stored into a Uint8Array element
ToUint8(value) ==
  IF value = Undefined \/ value = NaN THEN 0 ELSE value % 256

\* typedArray[index] = value: ignored outside 0..length-1
TypedArraySet(array, index, value) ==
  IF index >= 0 /\ index < Len(array)
  THEN [array EXCEPT ![index + 1] = ToUint8(value)]
  ELSE array

\* new Uint8Array(length)
NewUint8Array(n) == [i \in 1..n |-> 0]

(***************************************************************************)
(* Capacity of the working buffer.  The two factors are irrational; they   *)
(* are kept as ratios to six decimals, which give the same MathCeil as the *)
(* doubles of the source for every length below 1500.                      *)
(***************************************************************************)
\* MathLog(256) / MathLog(58) = 1.365658237309761
FACTOR == [num |-> 1365658, den |-> 1000000]

\* MathLog(58) / MathLog(256) = 0.7322476243909465
INVERSE_FACTOR == [num |-> 732248, den |-> 1000000]

MathCeil(q) == -((-q.num) \div q.den)

MathFloor(q) == q.num \div q.den

Times(n, q) == [num |-> n * q.num, den |-> q.den]

GetCapacity(n) == MathCeil(Times(n, FACTOR))

\* GetInverseCapacity with MathFloor in place of MathCeil
GetInverseCapacityFloor(n) == MathFloor(Times(n, INVERSE_FACTOR))

GetInverseCapacity(n) == MathCeil(Times(n, INVERSE_FACTOR))

(***************************************************************************)
(* The alphabet.                                                           *)
(***************************************************************************)
IsBase58CharCode(code) ==
  \/ code >= 49 /\ code <= 57
  \/ code >= 65 /\ code <= 78
  \/ code >= 80 /\ code <= 90
  \/ code >= 97 /\ code <= 122

\* '123456789ABCDEFGHJKLMNPQRSTUVWXYZabcdefghijkmnopqrstuvwxyz'
BASIC_ALPHABET ==
  <<49, 50, 51, 52, 53, 54, 55, 56, 57, 65, 66, 67, 68, 69, 70, 71, 72, 74,
    75, 76, 77, 78, 80, 81, 82, 83, 84, 85, 86, 87, 88, 89, 90, 97, 98, 99,
    100, 101, 102, 103, 104, 105, 106, 107, 109, 110, 111, 112, 113, 114,
    115, 116, 117, 118, 119, 120, 121, 122>>

\* 'AveDarkwo1f23456789BCEFGHJKLMNPQRSTUVWXYZbcdghijmnpqstuxyz'
DARKWOLF_ALPHABET ==
  <<65, 118, 101, 68, 97, 114, 107, 119, 111, 49, 102, 50, 51, 52, 53, 54,
    55, 56, 57, 66, 67, 69, 70, 71, 72, 74, 75, 76, 77, 78, 80, 81, 82, 83,
    84, 85, 86, 87, 88, 89, 90, 98, 99, 100, 103, 104, 105, 106, 109, 110,
    112, 113, 115, 116, 117, 120, 121, 122>>

\* the slots of an instance that was not constructed
NoInstance ==
  [Alphabet |-> <<>>, AlphabetLookup |-> EmptyMap,
   BaseMap |-> EmptyMap, BaseMapLookup |-> EmptyMap]

\* const alphabetLookup = new Map(); const baseMap = new Map();
\* const baseMapLookup = new Map();
NewMaps ==
  [AlphabetLookup |-> EmptyMap, BaseMap |-> EmptyMap,
   BaseMapLookup |-> EmptyMap]

\* ConstructorStep with MapSet(baseMapLookup, i, i): the third table is keyed
\* by the digit, not by the character code
ConstructorStepKeyedByDigit(alphabet, i, sofar) ==
  LET char == StringAt(alphabet, i)
      charCode == StringCharCodeAt(alphabet, i)
  IN IF MapHas(sofar.maps.AlphabetLookup, char)
     THEN [status |-> "Invalid alphabet", maps |-> NewMaps]
     ELSE IF ~IsBase58CharCode(charCode)
     THEN [status |-> "Invalid alphabet", maps |-> NewMaps]
     ELSE [status |-> "ok",
           maps |->
             [AlphabetLookup |-> MapSet(sofar.maps.AlphabetLookup, char, i),
              BaseMap |-> MapSet(sofar.maps.BaseMap, i, charCode),
              BaseMapLookup |-> MapSet(sofar.maps.BaseMapLookup, i, i)]]

\* One iteration of the constructor's loop, at index i, from the maps as filled
\* so far: the maps with the character added, or the message of the
\* RangeError thrown.
ConstructorStep(alphabet, i, sofar) ==
  LET char == StringAt(alphabet, i)
      charCode == StringCharCodeAt(alphabet, i)
  IN IF MapHas(sofar.maps.AlphabetLookup, char)
     THEN [status |-> "Invalid alphabet", maps |-> NewMaps]
     ELSE IF ~IsBase58CharCode(charCode)
     THEN [status |-> "Invalid alphabet", maps |-> NewMaps]
     ELSE [status |-> "ok",
           maps |->
             [AlphabetLookup |-> MapSet(sofar.maps.AlphabetLookup, char, i),
              BaseMap |-> MapSet(sofar.maps.BaseMap, i, charCode),
              BaseMapLookup |->
                MapSet(sofar.maps.BaseMapLookup, charCode, i)]]

\* The iterations first, first + 1, ..., last - 1 of the constructor's loop,
\* in this order.  The range is run as its lower half followed by its upper
\* half, which is the same sequence of iterations; a throw in the lower half
\* ends the loop.
RECURSIVE ConstructorLoop(_, _, _, _)
ConstructorLoop(alphabet, first, last, sofar) ==
  IF last - first = 1
  THEN ConstructorStep(alphabet, first, sofar)
  ELSE LET middle == (first + last) \div 2
           lower == ConstructorLoop(alphabet, first, middle, sofar)
       IN IF lower.status # "ok"
          THEN lower
          ELSE ConstructorLoop(alphabet, middle, last, lower)

\* new Base58Encoding(alphabet), for a string alphabet
Constructor(alphabet) ==
  LET length == Len(alphabet)
      looped == ConstructorLoop(alphabet, 0, 58,
                                [status |-> "ok", maps |-> NewMaps])
  IN IF length = 0 \/ length > 58
     THEN [status |-> "Alphabet length out of range", slots |-> NoInstance]
     ELSE IF looped.status # "ok"
     THEN [status |-> looped.status, slots |-> NoInstance]
     ELSE [status |-> "ok",
           slots |-> [Alphabet |-> alphabet,
                      AlphabetLookup |-> looped.maps.AlphabetLookup,
                      BaseMap |-> looped.maps.BaseMap,
                      BaseMapLookup |-> looped.maps.BaseMapLookup]]

(***************************************************************************)
(* The carry propagation of one input unit.  `touched` collects every      *)
(* index at which the loop reads or writes the working buffer.             *)
(***************************************************************************)
\* element << 8: ToInt32(undefined) is 0
ShiftLeft8(element) == IF element = Undefined THEN 0 ELSE element * 256

\* element * 58: NaN for undefined
Times58(element) == IF element = Undefined THEN NaN ELSE element * 58

\* carry + product, NaN when the product is
Plus(carry, product) == IF product = NaN THEN NaN ELSE carry + product

\* carry & 0xff: ToInt32(NaN) is 0
BitAnd255(carry) == IF carry = NaN THEN 0 ELSE carry % 256

\* carry >> 8: ToInt32(NaN) is 0
ShiftRight8(carry) == IF carry = NaN THEN 0 ELSE carry \div 256

\* the variables of the carry loop before its first iteration for one input
\* unit: let carry = input; let index = lastIndex;
NewCarry(w, input) ==
  [bytes |-> w.bytes, carry |-> input, index |-> Len(w.bytes) - 1,
   touched |-> w.touched]

\* carry += bytes[index] << 8; bytes[index] = carry % 58;
\* carry = (carry / 58) | 0; index--;
EncodeCarryStep(local) ==
  LET sum == local.carry + ShiftLeft8(TypedArrayGet(local.bytes, local.index))
  IN [bytes |-> TypedArraySet(local.bytes, local.index, sum % 58),
      carry |-> sum \div 58, index |-> local.index - 1,
      touched |-> local.touched \cup {local.index}]

\* EncodeCarry with the loop condition `carry` alone: the digits written for
\* the units before are not multiplied by 256 once the carry is 0
RECURSIVE EncodeCarryWhileCarry(_, _)
EncodeCarryWhileCarry(local, offset) ==
  IF local.carry # 0
  THEN EncodeCarryWhileCarry(EncodeCarryStep(local), offset)
  ELSE local

\* while (carry || index >= offset) { ... }
RECURSIVE EncodeCarry(_, _)
EncodeCarry(local, offset) ==
  IF local.carry # 0 \/ local.index >= offset
  THEN EncodeCarry(EncodeCarryStep(local), offset)
  ELSE local

\* carry += bytes[index] * 58; bytes[index] = carry & 0xff; carry >>= 8;
\* index--;
DecodeCarryStep(local) ==
  LET sum == Plus(local.carry,
                  Times58(TypedArrayGet(local.bytes, local.index)))
  IN [bytes |-> TypedArraySet(local.bytes, local.index, BitAnd255(sum)),
      carry |-> ShiftRight8(sum), index |-> local.index - 1,
      touched |-> local.touched \cup {local.index}]

\* while (carry || index >= offset) { ... }
RECURSIVE DecodeCarry(_, _)
DecodeCarry(local, offset) ==
  IF local.carry # 0 \/ local.index >= offset
  THEN DecodeCarry(DecodeCarryStep(local), offset)
  ELSE local

\* the variables of the loop over the input before its first iteration:
\* const bytes = new Uint8Array(capacity); let offset = lastIndex;
\* let i = leadingZeros;
NewWork(n, first) ==
  [status |-> "ok", i |-> first, bytes |-> NewUint8Array(n),
   offset |-> n - 1, touched |-> {}, exits |-> {}]

\* the variables of the loop over the input after the carry loop ended as
\* `ended`: offset = ++index; i++
NextWork(w, ended) ==
  [status |-> "ok", i |-> w.i + 1, bytes |-> ended.bytes,
   offset |-> ended.index + 1, touched |-> ended.touched,
   exits |-> w.exits \cup {ended.carry}]

\* the body of the loop of Encode and EncodeToBytes
EncodeStringStep(string, w) ==
  LET unit == StringCharCodeAt(string, w.i)
  IN IF unit > 255
     THEN [w EXCEPT !.status = "Invalid ASCII encoding"]
     ELSE NextWork(w, EncodeCarry(NewCarry(w, unit), w.offset))

\* for (let i = leadingZeros; i < length; i++) of Encode and EncodeToBytes;
\* a throw ends it
RECURSIVE EncodeStringLoop(_, _)
EncodeStringLoop(string, w) ==
  IF w.status = "ok" /\ w.i < Len(string)
  THEN EncodeStringLoop(string, EncodeStringStep(string, w))
  ELSE w

\* the body of the loop of EncodeBytes and EncodeBytesToString
EncodeBytesStep(source, w) ==
  NextWork(w, EncodeCarry(NewCarry(w, TypedArrayGet(source, w.i)), w.offset))

\* for (let i = leadingZeros; i < length; i++) of EncodeBytes and
\* EncodeBytesToString
RECURSIVE EncodeBytesLoop(_, _)
EncodeBytesLoop(source, w) ==
  IF w.status = "ok" /\ w.i < Len(source)
  THEN EncodeBytesLoop(source, EncodeBytesStep(source, w))
  ELSE w

\* the body of the loop of Decode and DecodeToBytes
DecodeStringStep(encodedString, w, baseMapLookup) ==
  LET charCode == StringCharCodeAt(encodedString, w.i)
      digit == MapGet(baseMapLookup, charCode)
  IN IF digit = Undefined
     THEN [w EXCEPT !.status = "Invalid Base58 encoding"]
     ELSE NextWork(w, DecodeCarry(NewCarry(w, digit), w.offset))

\* for (let i = leadingZeros; i < length; i++) of Decode and DecodeToBytes;
\* a throw ends it
RECURSIVE DecodeStringLoop(_, _, _)
DecodeStringLoop(encodedString, w, baseMapLookup) ==
  IF w.status = "ok" /\ w.i < Len(encodedString)
  THEN DecodeStringLoop(encodedString,
                        DecodeStringStep(encodedString, w, baseMapLookup),
                        baseMapLookup)
  ELSE w

\* DecodeBytesStep without the test `carry === undefined`: a code that is no
\* symbol goes on as the digit 0
DecodeBytesStepUnchecked(source, w, baseMapLookup) ==
  LET charCode == TypedArrayGet(source, w.i)
      found == MapGet(baseMapLookup, charCode)
      digit == IF found = Undefined THEN 0 ELSE found
  IN NextWork(w, DecodeCarry(NewCarry(w, digit), w.offset))

\* the body of the loop of DecodeBytes and DecodeBytesToString
DecodeBytesStep(source, w, baseMapLookup) ==
  LET charCode == TypedArrayGet(source, w.i)
      digit == MapGet(baseMapLookup, charCode)
  IN IF digit = Undefined
     THEN [w EXCEPT !.status = "Invalid Base58 encoding"]
     ELSE NextWork(w, DecodeCarry(NewCarry(w, digit), w.offset))

\* for (let i = leadingZeros; i < length; i++) of DecodeBytes and
\* DecodeBytesToString; a throw ends it
RECURSIVE DecodeBytesLoop(_, _, _)
DecodeBytesLoop(source, w, baseMapLookup) ==
  IF w.status = "ok" /\ w.i < Len(source)
  THEN DecodeBytesLoop(source, DecodeBytesStep(source, w, baseMapLookup),
                       baseMapLookup)
  ELSE w

\* while (leadingZeros < length && source[leadingZeros] === zero)
\*   leadingZeros++;
RECURSIVE CountLeadingZeros(_, _, _)
CountLeadingZeros(source, zero, count) ==
  IF count < Len(source) /\ source[count + 1] = zero
  THEN CountLeadingZeros(source, zero, count + 1)
  ELSE count

(***************************************************************************)
(* The loops that build the result.                                        *)
(***************************************************************************)
\* AppendZeroChars with `while (--leadingZeros > 0)`: one zero character short
RECURSIVE AppendZeroCharsOneShort(_, _, _)
AppendZeroCharsOneShort(result, count, zero) ==
  IF count > 1
  THEN AppendZeroCharsOneShort(StringConcat(result, zero), count - 1, zero)
  ELSE result

\* if (leadingZeros) { while (--leadingZeros >= 0) result += zeroChar; }
\* and: while (leadingZeros > 0) { result += '\0'; leadingZeros--; }
RECURSIVE AppendZeroChars(_, _, _)
AppendZeroChars(result, count, zero) ==
  IF count > 0
  THEN AppendZeroChars(StringConcat(result, zero), count - 1,
                       zero)
  ELSE result

\* while (offset < capacity) { const charIndex = bytes[offset++];
\*   result += alphabet[charIndex]; }, from out.result and out.offset
RECURSIVE AppendSymbols(_, _, _)
AppendSymbols(out, bytes, alphabet) ==
  IF out.offset < Len(bytes)
  THEN AppendSymbols(
         [result |-> StringConcat(out.result,
                       StringAt(alphabet, TypedArrayGet(bytes, out.offset))),
          offset |-> out.offset + 1],
         bytes, alphabet)
  ELSE out.result

\* while (offset < capacity) { const charCode = bytes[offset++];
\*   result += StringFromCharCode(charCode); }, from out.result and out.offset
RECURSIVE AppendChars(_, _)
AppendChars(out, bytes) ==
  IF out.offset < Len(bytes)
  THEN AppendChars(
         [result |-> StringConcat(out.result,
                       StringFromCharCode(TypedArrayGet(bytes, out.offset))),
          offset |-> out.offset + 1],
         bytes)
  ELSE out.result

\* if (leadingZeros) { while (index < leadingZeros)
\*   result[index++] = zeroCharCode; }
RECURSIVE FillZeroCharCodes(_, _, _, _)
FillZeroCharCodes(result, index, count, zero) ==
  IF index < count
  THEN FillZeroCharCodes(TypedArraySet(result, index, zero),
                         index + 1, count, zero)
  ELSE result

\* while (index < size) { const charIndex = bytes[offset++];
\*   result[index++] = MapGet(baseMap, charIndex); }, from out.result,
\* out.index and out.offset
RECURSIVE FillCharCodes(_, _, _)
FillCharCodes(out, bytes, baseMap) ==
  IF out.index < Len(out.result)
  THEN FillCharCodes(
         [result |-> TypedArraySet(out.result, out.index,
                       MapGet(baseMap, TypedArrayGet(bytes, out.offset))),
          index |-> out.index + 1, offset |-> out.offset + 1],
         bytes, baseMap)
  ELSE out.result

\* while (index < size) { result[index++] = bytes[offset++]; }, from
\* out.result, out.index and out.offset
RECURSIVE FillBytes(_, _)
FillBytes(out, bytes) ==
  IF out.index < Len(out.result)
  THEN FillBytes(
         [result |-> TypedArraySet(out.result, out.index,
                                   TypedArrayGet(bytes, out.offset)),
          index |-> out.index + 1, offset |-> out.offset + 1],
         bytes)
  ELSE out.result

(***************************************************************************)
(* The eight conversion routines.  Each gives its outcome: the status      *)
(* ("ok", or the message of the RangeError thrown), the value returned     *)
(* (none when it throws, shown as <<>>), and what the routine              *)
(* did with its working buffer (leadingZeros, capacity, the indexes the    *)
(* carry loop touched, the carry at each exit of the carry loop).          *)
(***************************************************************************)
\* the outcome of a routine that returns before it allocates a buffer
Returned(value) ==
  [status |-> "ok", result |-> value, leadingZeros |-> 0, capacity |-> 0,
   touched |-> {}, exits |-> {}]

\* the outcome of a routine whose loops ended in the working state w
Outcome(w, value, count) ==
  [status |-> w.status,
   result |-> IF w.status = "ok" THEN value ELSE <<>>,
   leadingZeros |-> count, capacity |-> Len(w.bytes),
   touched |-> w.touched, exits |-> w.exits]

Encode(slots, string) ==
  LET length == Len(string)
      leadingZeros == CountLeadingZeros(string, 0, 0)
      capacity == GetCapacity(length - leadingZeros)
      work == EncodeStringLoop(string, NewWork(capacity, leadingZeros))
      zeros == AppendZeroChars(<<>>, leadingZeros, StringAt(slots.Alphabet, 0))
  IN IF length = 0
     THEN Returned(<<>>)
     ELSE Outcome(work,
                  AppendSymbols([result |-> zeros, offset |-> work.offset],
                                work.bytes, slots.Alphabet),
                  leadingZeros)

EncodeToBytes(slots, string) ==
  LET length == Len(string)
      leadingZeros == CountLeadingZeros(string, 0, 0)
      capacity == GetCapacity(length - leadingZeros)
      work == EncodeStringLoop(string, NewWork(capacity, leadingZeros))
      size == capacity - work.offset + leadingZeros
      zeros == FillZeroCharCodes(NewUint8Array(size), 0, leadingZeros,
                                 MapGet(slots.BaseMap, 0))
  IN IF length = 0
     THEN Returned(<<>>)
     ELSE Outcome(work,
                  FillCharCodes([result |-> zeros, index |-> leadingZeros,
                                 offset |-> work.offset],
                                work.bytes, slots.BaseMap),
                  leadingZeros)

Decode(slots, encodedString) ==
  LET length == Len(encodedString)
      zeroChar == StringAt(slots.Alphabet, 0)
      leadingZeros == CountLeadingZeros(encodedString, zeroChar, 0)
      capacity == GetCapacity(length - leadingZeros)
      work == DecodeStringLoop(encodedString, NewWork(capacity, leadingZeros),
                               slots.BaseMapLookup)
      zeros == AppendZeroChars(<<>>, leadingZeros, 0)
  IN IF length = 0
     THEN Returned(<<>>)
     ELSE Outcome(work,
                  AppendChars([result |-> zeros, offset |-> work.offset],
                              work.bytes),
                  leadingZeros)

DecodeToBytes(slots, encodedString) ==
  LET length == Len(encodedString)
      zeroChar == StringAt(slots.Alphabet, 0)
      leadingZeros == CountLeadingZeros(encodedString, zeroChar, 0)
      capacity == GetCapacity(length - leadingZeros)
      work == DecodeStringLoop(encodedString, NewWork(capacity, leadingZeros),
                               slots.BaseMapLookup)
      size == capacity - work.offset + leadingZeros
  IN IF length = 0
     THEN Returned(<<>>)
     ELSE Outcome(work,
                  FillBytes([result |-> NewUint8Array(size),
                             index |-> leadingZeros, offset |-> work.offset],
                            work.bytes),
                  leadingZeros)

EncodeBytes(slots, source) ==
  LET length == Len(source)
      leadingZeros == CountLeadingZeros(source, 0, 0)
      capacity == GetCapacity(length - leadingZeros)
      work == EncodeBytesLoop(source, NewWork(capacity, leadingZeros))
      size == capacity - work.offset + leadingZeros
      zeros == FillZeroCharCodes(NewUint8Array(size), 0, leadingZeros,
                                 MapGet(slots.BaseMap, 0))
  IN IF length = 0
     THEN Returned(<<>>)
     ELSE Outcome(work,
                  FillCharCodes([result |-> zeros, index |-> leadingZeros,
                                 offset |-> work.offset],
                                work.bytes, slots.BaseMap),
                  leadingZeros)

EncodeBytesToString(slots, source) ==
  LET length == Len(source)
      leadingZeros == CountLeadingZeros(source, 0, 0)
      capacity == GetCapacity(length - leadingZeros)
      work == EncodeBytesLoop(source, NewWork(capacity, leadingZeros))
      zeros == AppendZeroChars(<<>>, leadingZeros, StringAt(slots.Alphabet, 0))
  IN IF length = 0
     THEN Returned(<<>>)
     ELSE Outcome(work,
                  AppendSymbols([result |-> zeros, offset |-> work.offset],
                                work.bytes, slots.Alphabet),
                  leadingZeros)

DecodeBytes(slots, source) ==
  LET length == Len(source)
      zeroCharCode == MapGet(slots.BaseMapLookup, 0)
      leadingZeros == CountLeadingZeros(source, zeroCharCode, 0)
      capacity == GetInverseCapacity(length - leadingZeros)
      work == DecodeBytesLoop(source, NewWork(capacity, leadingZeros),
                              slots.BaseMapLookup)
      size == capacity - work.offset + leadingZeros
  IN IF length = 0
     THEN Returned(<<>>)
     ELSE Outcome(work,
                  FillBytes([result |-> NewUint8Array(size),
                             index |-> leadingZeros, offset |-> work.offset],
                            work.bytes),
                  leadingZeros)

DecodeBytesToString(slots, source) ==
  LET length == Len(source)
      zeroCharCode == MapGet(slots.BaseMapLookup, 0)
      leadingZeros == CountLeadingZeros(source, zeroCharCode, 0)
      capacity == GetInverseCapacity(length - leadingZeros)
      work == DecodeBytesLoop(source, NewWork(capacity, leadingZeros),
                              slots.BaseMapLookup)
      zeros == AppendZeroChars(<<>>, leadingZeros, 0)
  IN IF length = 0
     THEN Returned(<<>>)
     ELSE Outcome(work,
                  AppendChars([result |-> zeros, offset |-> work.offset],
                              work.bytes),
                  leadingZeros)

(***************************************************************************)
(* The integer routines.  Within the model's range a double and a BigInt   *)
(* hold the same integers, and %, / and MathFloor are exact on them.       *)
(***************************************************************************)
\* EncodeIntLoop with the character appended, not prepended
RECURSIVE EncodeIntLoopAppending(_, _, _)
EncodeIntLoopAppending(alphabet, carry, result) ==
  IF carry # 0
  THEN EncodeIntLoopAppending(alphabet, carry \div 58,
                              result \o <<StringAt(alphabet, carry % 58)>>)
  ELSE result

\* while (carry) { char = alphabet[carry % 58]; result = `${char}${result}`;
\*   carry = MathFloor(carry / 58); }
RECURSIVE EncodeIntLoop(_, _, _)
EncodeIntLoop(alphabet, carry, result) ==
  IF carry # 0
  THEN EncodeIntLoop(alphabet, carry \div 58,
                     <<StringAt(alphabet, carry % 58)>> \o result)
  ELSE result

EncodeInt(slots, integer) ==
  IF integer = 0
  THEN Returned(<<StringAt(slots.Alphabet, 0)>>)
  ELSE Returned(EncodeIntLoop(slots.Alphabet, integer, <<>>))

\* for (let i = leadingZeros; i < length; i++) { ... result = result * 58 +
\*   charIndex; }: the integer, or undefined at a character that is no symbol
RECURSIVE DecodeIntLoop(_, _, _, _)
DecodeIntLoop(encodedInteger, i, result, alphabetLookup) ==
  IF i < Len(encodedInteger)
  THEN LET charIndex == MapGet(alphabetLookup, StringAt(encodedInteger, i))
       IN IF charIndex = Undefined
          THEN Undefined
          ELSE DecodeIntLoop(encodedInteger, i + 1, result * 58 + charIndex,
                             alphabetLookup)
  ELSE result

\* DecodeInt that throws where it is to return NaN
DecodeIntThrowing(slots, encodedInteger) ==
  LET length == Len(encodedInteger)
      zeroChar == StringAt(slots.Alphabet, 0)
      leadingZeros == CountLeadingZeros(encodedInteger, zeroChar, 0)
      decoded == DecodeIntLoop(encodedInteger, leadingZeros, 0,
                               slots.AlphabetLookup)
  IN IF length = 0
     THEN [Returned(<<>>) EXCEPT !.status = "Invalid Base58 encoded integer"]
     ELSE IF decoded = Undefined
     THEN [Returned(<<>>) EXCEPT !.status = "Invalid Base58 encoded integer"]
     ELSE Returned(decoded)

DecodeInt(slots, encodedInteger) ==
  LET length == Len(encodedInteger)
      zeroChar == StringAt(slots.Alphabet, 0)
      leadingZeros == CountLeadingZeros(encodedInteger, zeroChar, 0)
      decoded == DecodeIntLoop(encodedInteger, leadingZeros, 0,
                              slots.AlphabetLookup)
  IN IF length = 0
     THEN Returned(NaN)
     ELSE IF decoded = Undefined
     THEN Returned(NaN)
     ELSE Returned(decoded)

\* while (carry) { char = alphabet[carry % BIGINT_BASE]; ...;
\*   carry /= BIGINT_BASE; }
RECURSIVE EncodeBigIntLoop(_, _, _)
EncodeBigIntLoop(alphabet, carry, result) ==
  IF carry # 0
  THEN EncodeBigIntLoop(alphabet, carry \div 58,
                        <<StringAt(alphabet, carry % 58)>> \o result)
  ELSE result

EncodeBigInt(slots, bigint) ==
  IF bigint = 0
  THEN Returned(<<StringAt(slots.Alphabet, 0)>>)
  ELSE Returned(EncodeBigIntLoop(slots.Alphabet, bigint, <<>>))

\* the outcome of a routine that throws
Thrown(error) == [Returned(<<>>) EXCEPT !.status = error]

\* for (let i = leadingZeros; i < length; i++) { ... result = result *
\*   BIGINT_BASE + BigInt(charIndex); }: the integer, or undefined at a
\* character that is no symbol
RECURSIVE DecodeBigIntLoop(_, _, _, _)
DecodeBigIntLoop(encodedInteger, i, result, alphabetLookup) ==
  IF i < Len(encodedInteger)
  THEN LET charIndex == MapGet(alphabetLookup, StringAt(encodedInteger, i))
       IN IF charIndex = Undefined
          THEN Undefined
          ELSE DecodeBigIntLoop(encodedInteger, i + 1,
                                result * 58 + charIndex, alphabetLookup)
  ELSE result

DecodeBigInt(slots, encodedInteger) ==
  LET length == Len(encodedInteger)
      zeroChar == StringAt(slots.Alphabet, 0)
      leadingZeros == CountLeadingZeros(encodedInteger, zeroChar, 0)
      decoded == DecodeBigIntLoop(encodedInteger, leadingZeros, 0,
                                 slots.AlphabetLookup)
  IN IF length = 0
     THEN Thrown("Invalid Base58 encoded integer")
     ELSE IF decoded = Undefined
     THEN Thrown("Invalid Base58 encoded integer")
     ELSE Returned(decoded)

(***************************************************************************)
(* The methods of Base58Encoding.prototype are called on arguments that    *)
(* are already of the type the method coerces to (a string, a buffer, a    *)
(* finite integer).                                                        *)
(***************************************************************************)
\* ToIntegerOrInfinity of a number of the model: NaN gives 0
ToIntegerOrInfinity(integer) == IF integer = NaN THEN 0 ELSE integer

(***************************************************************************)
(* The arguments the callers of the model pass.                            *)
(***************************************************************************)
\* the sequences over S of length at most n
SeqsUpTo(S, n) == UNION {[1..k -> S] : k \in 0..n}

\* alphabets handed to the constructor: the two presets, the first preset
\* with 'l', 'I', '0', 'O' or a repeated character in it, and alphabets that
\* are empty, too short or too long
Alphabets ==
  {BASIC_ALPHABET, DARKWOLF_ALPHABET,
   [BASIC_ALPHABET EXCEPT ![1] = 108],
   [BASIC_ALPHABET EXCEPT ![58] = 73],
   [BASIC_ALPHABET EXCEPT ![1] = 48],
   [BASIC_ALPHABET EXCEPT ![58] = 79],
   [BASIC_ALPHABET EXCEPT ![58] = 49],
   <<>>, <<49>>, SubSeq(BASIC_ALPHABET, 1, 57),
   BASIC_ALPHABET \o <<49>>}

\* code units of the strings handed to encode and encodeToBytes
CharVals == {0, 1, 65, 255, 256}

\* elements of the buffers handed to encodeBytes and encodeBytesToString
ByteVals == {0, 1, 57, 58, 255}

\* code units handed to the decoding methods: the symbols of digits 0, 1, 33
\* and 57 of the bound alphabet, and '0', which no alphabet holds
SymVals(slots) ==
  {slots.Alphabet[1], slots.Alphabet[2], slots.Alphabet[34],
   slots.Alphabet[58], 48}

\* integers handed to encodeInt and encodeBigInt
IntVals == (-1..MaxInt) \cup {3363, 3364, 195111, 195112}

\* the arguments a caller makes up for the method named op
Fresh(slots, op) ==
  CASE op \in {"encode", "encodeToBytes"} -> SeqsUpTo(CharVals, MaxLen)
    [] op \in {"encodeBytes", "encodeBytesToString"} ->
         SeqsUpTo(ByteVals, MaxLen)
    [] op \in {"encodeInt", "encodeBigInt"} -> IntVals
    [] OTHER -> SeqsUpTo(SymVals(slots), MaxLen)

\* the method that undoes the method named op
Inverse(op) ==
  CASE op = "encode" -> "decode"
    [] op = "decode" -> "encode"
    [] op = "encodeToBytes" -> "decodeBytesToString"
    [] op = "decodeBytesToString" -> "encodeToBytes"
    [] op = "encodeBytes" -> "decodeBytes"
    [] op = "decodeBytes" -> "encodeBytes"
    [] op = "encodeBytesToString" -> "decodeToBytes"
    [] op = "decodeToBytes" -> "encodeBytesToString"
    [] op = "encodeInt" -> "decodeInt"
    [] op = "decodeInt" -> "encodeInt"
    [] op = "encodeBigInt" -> "decodeBigInt"
    [] op = "decodeBigInt" -> "encodeBigInt"
    [] OTHER -> "none"

(***************************************************************************)
(* The state: the instance under study (target, its four slots), the       *)
(* outcome of the constructor call that made it or failed (ctor), the last *)
(* method call on it (call) and, when the argument of that call was the    *)
(* value the call before it returned, that call (prev).                    *)
(***************************************************************************)
NoCall ==
  [op |-> "none", arg |-> <<>>, status |-> "none", result |-> <<>>,
   leadingZeros |-> 0, capacity |-> 0, touched |-> {}, exits |-> {}]

Call(op, arg, outcome) ==
  [op |-> op, arg |-> arg, status |-> outcome.status,
   result |-> outcome.result, leadingZeros |-> outcome.leadingZeros,
   capacity |-> outcome.capacity, touched |-> outcome.touched,
   exits |-> outcome.exits]

Init ==
  /\ target = NoInstance
  /\ ctor = [alphabet |-> <<>>, status |-> "none"]
  /\ call = NoCall
  /\ prev = NoCall

\* new Base58Encoding(alphabet)
Construct ==
  /\ ctor.status # "ok"
  /\ \E alphabet \in Alphabets :
       LET made == Constructor(alphabet)
       IN /\ ctor' = [alphabet |-> alphabet, status |-> made.status]
          /\ target' = made.slots
  /\ UNCHANGED <<call, prev>>

\* The arguments of the next call of the method named op: made up by the
\* caller when it is the first call, and the value the first call returned
\* when op is the method that undoes it.
Args(op) ==
  IF call.op = "none"
  THEN Fresh(target, op)
  ELSE IF prev.op = "none" /\ call.status = "ok" /\ op = Inverse(call.op)
  THEN {call.result}
  ELSE {}

\* The method named op returns (or throws): the call is recorded.
Return(op, arg, outcome) ==
  /\ call' = Call(op, arg, outcome)
  /\ prev' = call
  /\ UNCHANGED <<target, ctor>>

encode ==
  /\ ctor.status = "ok"
  /\ \E string \in Args("encode") :
       Return("encode", string, Encode(target, string))

encodeToBytes ==
  /\ ctor.status = "ok"
  /\ \E string \in Args("encodeToBytes") :
       Return("encodeToBytes", string, EncodeToBytes(target, string))

decode ==
  /\ ctor.status = "ok"
  /\ \E encodedString \in Args("decode") :
       Return("decode", encodedString, Decode(target, encodedString))

decodeToBytes ==
  /\ ctor.status = "ok"
  /\ \E encodedString \in Args("decodeToBytes") :
       Return("decodeToBytes", encodedString,
              DecodeToBytes(target, encodedString))

encodeBytes ==
  /\ ctor.status = "ok"
  /\ \E buffer \in Args("encodeBytes") :
       Return("encodeBytes", buffer, EncodeBytes(target, buffer))

encodeBytesToString ==
  /\ ctor.status = "ok"
  /\ \E buffer \in Args("encodeBytesToString") :
       Return("encodeBytesToString", buffer,
              EncodeBytesToString(target, buffer))

decodeBytes ==
  /\ ctor.status = "ok"
  /\ \E buffer \in Args("decodeBytes") :
       Return("decodeBytes", buffer, DecodeBytes(target, buffer))

decodeBytesToString ==
  /\ ctor.status = "ok"
  /\ \E buffer \in Args("decodeBytesToString") :
       Return("decodeBytesToString", buffer,
              DecodeBytesToString(target, buffer))

encodeInt ==
  /\ ctor.status = "ok"
  /\ \E integer \in Args("encodeInt") :
       Return("encodeInt", integer,
              LET int == ToIntegerOrInfinity(integer)
              IN IF int < 0
                 THEN Thrown("integer cannot be negative")
                 ELSE EncodeInt(target, int))

decodeInt ==
  /\ ctor.status = "ok"
  /\ \E encodedInteger \in Args("decodeInt") :
       Return("decodeInt", encodedInteger,
              DecodeInt(target, encodedInteger))

encodeBigInt ==
  /\ ctor.status = "ok"
  /\ \E bigint \in Args("encodeBigInt") :
       Return("encodeBigInt", bigint,
              IF bigint < 0
              THEN Thrown("bigint cannot be negative")
              ELSE EncodeBigInt(target, bigint))

decodeBigInt ==
  /\ ctor.status = "ok"
  /\ \E encodedInteger \in Args("decodeBigInt") :
       Return("decodeBigInt", encodedInteger,
              DecodeBigInt(target, encodedInteger))

Next ==
  \/ Construct
  \/ encode
  \/ encodeToBytes
  \/ decode
  \/ decodeToBytes
  \/ encodeBytes
  \/ encodeBytesToString
  \/ decodeBytes
  \/ decodeBytesToString
  \/ encodeInt
  \/ decodeInt
  \/ encodeBigInt
  \/ decodeBigInt

Spec == Init /\ [][Next]_vars

(***************************************************************************)
(* Properties.  A call chained on the one before it has prev.op # "none",  *)
(* and then call.arg = prev.result: the pair is a round trip.              *)
(***************************************************************************)
\* the symbols of the bound alphabet
Symbols == {target.Alphabet[d] : d \in 1..Len(target.Alphabet)}

\* the length of the run of v that seq starts with
LeadingRun(seq, v) ==
  CHOOSE k \in 0..Len(seq) :
    /\ \A j \in 1..k : seq[j] = v
    /\ k = Len(seq) \/ seq[k + 1] # v

\* C1: round trip through the string encoding: decodeToBytes of
\* encodeBytesToString(b) is b for every byte sequence b, sequences made only
\* of zero bytes included, and decode(encode(s)) is s for every string s whose
\* code units are all at most 0xFF.
RoundTripStringEncoding ==
  /\ (prev.op = "encodeBytesToString" /\ call.op = "decodeToBytes")
       => (call.status = "ok" /\ call.result = prev.arg)
  /\ (prev.op = "encode" /\ call.op = "decode")
       => (call.status = "ok" /\ call.result = prev.arg)

\* the symbol of digit 0
ZeroSymbol == target.Alphabet[1]

\* the byte sequence b holds a nonzero byte after its leading zero bytes
HasData(b) == LeadingRun(b, 0) < Len(b)

\* C2: leading-zero fidelity of the string encoding: for k zero bytes followed
\* by data whose first byte is nonzero, encodeBytesToString returns exactly k
\* zero symbols followed by a symbol that is not the zero symbol, and
\* decodeToBytes of that string returns exactly k zero bytes followed by a
\* nonzero byte.
LeadingZeroFidelity ==
  /\ (call.op = "encodeBytesToString" /\ HasData(call.arg)) =>
       /\ call.status = "ok"
       /\ LeadingRun(call.result, ZeroSymbol) = LeadingRun(call.arg, 0)
       /\ Len(call.result) > LeadingRun(call.arg, 0)
       /\ call.result[LeadingRun(call.arg, 0) + 1] \in Symbols
  /\ (prev.op = "encodeBytesToString" /\ call.op = "decodeToBytes"
        /\ HasData(prev.arg)) =>
       /\ call.status = "ok"
       /\ LeadingRun(call.result, 0) = LeadingRun(prev.arg, 0)
       /\ Len(call.result) > LeadingRun(prev.arg, 0)

\* C2 witness: two zero bytes and a nonzero byte went through
\* encodeBytesToString and decodeToBytes.
LeadingZeroFidelityWitness ==
  /\ prev.op = "encodeBytesToString"
  /\ call.op = "decodeToBytes"
  /\ Len(prev.arg) = 3
  /\ LeadingRun(prev.arg, 0) = 2
  /\ LeadingRun(call.arg, ZeroSymbol) = 2
  /\ LeadingRun(call.result, 0) = 2

\* C3: round trip through the byte-buffer encoding: decodeBytes of
\* encodeBytes(b) is b for every byte sequence b (decodeBytes re-emits one
\* zero byte for each leading zero-symbol code).
RoundTripByteEncoding ==
  (prev.op = "encodeBytes" /\ call.op = "decodeBytes")
    => (call.status = "ok" /\ call.result = prev.arg)

\* C4: integer round trip: decodeInt(encodeInt(n)) = n and
\* decodeBigInt(encodeBigInt(n)) = n for every integer n >= 0, and the
\* encoding of 0 is the single zero symbol.
IntegerRoundTrip ==
  /\ (prev.op = "encodeInt" /\ call.op = "decodeInt")
       => (call.status = "ok" /\ call.result = prev.arg)
  /\ (prev.op = "encodeBigInt" /\ call.op = "decodeBigInt")
       => (call.status = "ok" /\ call.result = prev.arg)
  /\ (call.op \in {"encodeInt", "encodeBigInt"} /\ call.arg >= 0)
       => call.status = "ok"
  /\ (call.op \in {"encodeInt", "encodeBigInt"} /\ call.arg = 0)
       => call.result = <<ZeroSymbol>>

\* C4 witness: a three-digit integer went through encodeInt and decodeInt.
IntegerRoundTripWitness ==
  /\ prev.op = "encodeInt"
  /\ call.op = "decodeInt"
  /\ prev.arg = 3364
  /\ Len(call.arg) = 3
  /\ call.result = 3364

\* the characters of Base58: digits 1-9, letters A-H, J-N, P-Z, a-k, m-z
Base58Chars ==
  (49..57) \cup (65..72) \cup (74..78) \cup (80..90) \cup (97..107)
    \cup (109..122)

\* C5: alphabet validation: the constructor fails when the alphabet has
\* length 0 or more than 58, repeats a character or holds a character that is
\* not one of Base58 (0, O, I and l are not), and succeeds on 58 distinct
\* characters of Base58.
AlphabetValidation ==
  ctor.status # "none" =>
    LET a == ctor.alphabet
        repeats == \E j, k \in 1..Len(a) : j # k /\ a[j] = a[k]
        foreign == \E j \in 1..Len(a) : a[j] \notin Base58Chars
    IN /\ (Len(a) = 0 \/ Len(a) > 58 \/ repeats \/ foreign)
            => ctor.status \in {"Alphabet length out of range",
                                "Invalid alphabet"}
       /\ (Len(a) = 58 /\ ~repeats /\ ~foreign) => ctor.status = "ok"

\* some code unit of s is no symbol of the bound alphabet
HasForeign(s) == \E j \in 1..Len(s) : s[j] \notin Symbols

\* C6: decode rejection: decode, decodeToBytes, decodeBytes and
\* decodeBytesToString throw 'Invalid Base58 encoding' and return nothing
\* when some code unit of the input is no symbol of the alphabet, and do not
\* throw when every one is.
DecodeRejection ==
  call.op \in {"decode", "decodeToBytes", "decodeBytes", "decodeBytesToString"}
    => /\ HasForeign(call.arg)
            => (call.status = "Invalid Base58 encoding" /\ call.result = <<>>)
       /\ ~HasForeign(call.arg) => call.status = "ok"

\* C6 witness: decodeBytes threw on a buffer whose last code alone is no
\* symbol.
DecodeRejectionWitness ==
  /\ call.op = "decodeBytes"
  /\ Len(call.arg) = 3
  /\ ~HasForeign(SubSeq(call.arg, 1, 2))
  /\ call.arg[3] \notin Symbols
  /\ call.status = "Invalid Base58 encoding"

\* C7: decodeInt returns NaN and never throws when its input is empty or
\* holds a character that is no symbol, decodeBigInt throws on the same
\* inputs; on other inputs neither returns NaN nor throws.
IntegerDecodeAsymmetry ==
  /\ call.op = "decodeInt" =>
       /\ call.status = "ok"
       /\ call.result = NaN <=> (call.arg = <<>> \/ HasForeign(call.arg))
  /\ call.op = "decodeBigInt" =>
       /\ (call.arg = <<>> \/ HasForeign(call.arg))
            => call.status = "Invalid Base58 encoded integer"
       /\ ~(call.arg = <<>> \/ HasForeign(call.arg))
            => (call.status = "ok" /\ call.result >= 0)

\* C7 witness: decodeInt returned NaN for a character that is no symbol after
\* a symbol.
IntegerDecodeAsymmetryWitness ==
  /\ call.op = "decodeInt"
  /\ Len(call.arg) >= 2
  /\ call.arg[1] \in Symbols
  /\ HasForeign(call.arg)
  /\ call.status = "ok"
  /\ call.result = NaN

\* the digit of a symbol of the bound alphabet
DigitOf(symbol) == CHOOSE d \in 0..57 : target.Alphabet[d + 1] = symbol

\* Two coprime moduli: numerals below their product, 2^44 and more, are equal
\* exactly when they agree modulo both.
Moduli == {4194303, 4194304}

\* the big-endian numeral seq in the given base, modulo m (Horner's scheme)
RECURSIVE NumeralMod(_, _, _, _)
NumeralMod(seq, base, m, acc) ==
  IF seq = <<>>
  THEN acc
  ELSE NumeralMod(Tail(seq), base, m, (acc * base + Head(seq)) % m)

\* C8: numeric correctness of encode: for a non-empty byte sequence whose
\* first byte is nonzero, the symbols encodeBytesToString returns are symbols
\* of the alphabet whose digits, read as a big-endian base-58 numeral, equal
\* the input read as a big-endian base-256 numeral, and the most significant
\* digit is nonzero.
NumericCorrectness ==
  (call.op = "encodeBytesToString" /\ call.arg # <<>> /\ call.arg[1] # 0) =>
    /\ call.status = "ok"
    /\ call.result # <<>>
    /\ \A j \in 1..Len(call.result) : call.result[j] \in Symbols
    /\ DigitOf(call.result[1]) # 0
    /\ \A m \in Moduli :
         NumeralMod([j \in 1..Len(call.result) |-> DigitOf(call.result[j])],
                    58, m, 0)
           = NumeralMod(call.arg, 256, m, 0)

\* C8 witness: encodeBytesToString turned three bytes, the first 255, into
\* five symbols.
NumericCorrectnessWitness ==
  /\ call.op = "encodeBytesToString"
  /\ Len(call.arg) = 3
  /\ call.arg[1] = 255
  /\ call.status = "ok"
  /\ Len(call.result) = 5

\* C9: decode is the inverse of encode in the other direction: for every
\* string s of symbols of the alphabet, the empty string and strings of zero
\* symbols included, encodeBytesToString(decodeToBytes(s)) is s.
DecodeEncodeInverse ==
  (prev.op = "decodeToBytes" /\ call.op = "encodeBytesToString")
    => (call.status = "ok" /\ call.result = prev.arg)

\* the capacity the routine of the last call computes for its working buffer
\* from the length of its argument and its count of leading zeros
ClaimedCapacity ==
  IF call.op \in {"decodeBytes", "decodeBytesToString"}
  THEN MathCeil(Times(Len(call.arg) - call.leadingZeros, INVERSE_FACTOR))
  ELSE MathCeil(Times(Len(call.arg) - call.leadingZeros, FACTOR))

\* C10: the working buffer is large enough: in each of the eight conversion
\* routines every index at which the carry loop reads or writes the buffer is
\* at least 0 and below the capacity, the carry is 0 whenever the carry loop
\* exits, and the capacity is MathCeil((length - leadingZeros) * FACTOR), with
\* INVERSE_FACTOR in decodeBytes and decodeBytesToString.
BufferCapacitySufficient ==
  call.op \in {"encode", "encodeToBytes", "decode", "decodeToBytes",
               "encodeBytes", "encodeBytesToString", "decodeBytes",
               "decodeBytesToString"}
    => /\ \A index \in call.touched : 0 <= index /\ index < call.capacity
       /\ \A carry \in call.exits : carry = 0
       /\ call.capacity = ClaimedCapacity

\* C10 witness: the carry loop of decodeBytes reached index 0 of a buffer of
\* three bytes.
BufferCapacitySufficientWitness ==
  /\ call.op = "decodeBytes"
  /\ call.status = "ok"
  /\ call.capacity = 3
  /\ call.touched = {0, 1, 2}
  /\ call.exits = {0}

\* the tables of the instance hold 58 entries each and agree with the alphabet
\* the instance was constructed from
AlphabetTables ==
  /\ Len(ctor.alphabet) = 58
  /\ target.Alphabet = ctor.alphabet
  /\ Cardinality(DOMAIN target.AlphabetLookup) = 58
  /\ Cardinality(DOMAIN target.BaseMap) = 58
  /\ Cardinality(DOMAIN target.BaseMapLookup) = 58
  /\ \A i \in 0..57 :
       /\ MapGet(target.AlphabetLookup, StringAt(target.Alphabet, i)) = i
       /\ MapGet(target.BaseMap, i) = StringCharCodeAt(target.Alphabet, i)
       /\ MapGet(target.BaseMapLookup,
                 StringCharCodeAt(target.Alphabet, i)) = i

\* C11: alphabet invariant: every instance that is constructed has an alphabet
\* of 58 characters (none of length 1 to 57 constructs) and exactly 58 entries
\* in each lookup table, with symbol-to-digit(alphabet[i]) = i,
\* digit-to-charcode(i) = code of alphabet[i] and charcode-to-digit(code of
\* alphabet[i]) = i for every digit i in 0..57; and no step taken on a
\* constructed instance, so no encode or decode call, changes its slots.
AlphabetInvariant ==
  /\ [](ctor.status = "ok" => AlphabetTables)
  /\ [][ctor.status = "ok" => target' = target]_vars

\* C11 witness: two methods were called on an instance constructed from the
\* DARKWOLF alphabet, whose tables hold 'A' as digit 0 and 'z' as digit 57.
AlphabetInvariantWitness ==
  /\ ctor.status = "ok"
  /\ ctor.alphabet = DARKWOLF_ALPHABET
  /\ prev.op # "none"
  /\ call.op # "none"
  /\ MapGet(target.BaseMapLookup, 65) = 0
  /\ MapGet(target.AlphabetLookup, 122) = 57
  /\ MapGet(target.BaseMap, 57) = 122

====
